---- MODULE Spec2Model ----
(***************************************************************************)
(* Sparkground language engine.                                            *)
(*                                                                         *)
(* Part I models the expression forest (trees.ts) and the structural       *)
(* mutation engine (mutate.ts): newTree, removeTree, moveExprInTree,       *)
(* copyExprInTree, orphanExpr over a heap of identified Expr nodes.        *)
(*                                                                         *)
(* Expr objects are JavaScript objects compared with ===, so every node    *)
(* has an identity: a node is an index into `heap`; `hole` is the one      *)
(* shared sentinel object.  A Tree's `location` is opaque placement        *)
(* metadata that no operation of the engine reads; it is not carried.      *)
(***************************************************************************)
EXTENDS Integers, Sequences, FiniteSets, TLC

\* ------------------------------------------------------------ bounds
\* Most Expr nodes ever allocated in one behaviour.
MaxNodes == 4
\* Most tree ids ever issued in one behaviour (cap on nextID).
MaxID == 2
\* Longest index path a caller passes.
MaxPathLen == 3

\* ------------------------------------------------------------ Expr nodes
\* The hole sentinel (ast: `hole`): one shared object, not a heap node.
hole == 0
\* Marker for the exception "invalid index path for tree".
Invalid == -1

isHole(e) == e = hole

isSExpr(h, e) == e \in DOMAIN h /\ h[e].kind = "sexpr"

\* Child slot `index` of a composite node; out of range fails (InvalidPath).
childAtIndex(h, e, index) ==
  IF index \in 0 .. (Len(h[e].kids) - 1) THEN h[e].kids[index + 1] ELSE Invalid

\* In-place replacement of one child slot of a composite node.
setChildAtIndex(h, e, index, newChild) ==
  [h EXCEPT ![e].kids[index + 1] = newChild]

\* indexPath.slice(0, -1): all but the last element (empty stays empty).
Front(s) == IF s = <<>> THEN <<>> ELSE SubSeq(s, 1, Len(s) - 1)

Last(s) == s[Len(s)]

RECURSIVE resolveFrom(_, _, _)
resolveFrom(h, root, indexPath) ==
  IF indexPath = <<>> THEN root
  ELSE IF ~isSExpr(h, root) THEN Invalid
  ELSE LET c == childAtIndex(h, root, Head(indexPath))
       IN IF c = Invalid THEN Invalid ELSE resolveFrom(h, c, Tail(indexPath))

\* The node an index path selects from a tree's root, or Invalid (throws).
exprForIndexPathInTree(h, tree, indexPath) == resolveFrom(h, tree.root, indexPath)

\* ------------------------------------------------------------ tree ids
Digit(d) ==
  CASE d = 0 -> "0" [] d = 1 -> "1" [] d = 2 -> "2" [] d = 3 -> "3" [] d = 4 -> "4"
    [] d = 5 -> "5" [] d = 6 -> "6" [] d = 7 -> "7" [] d = 8 -> "8" [] d = 9 -> "9"

RECURSIVE Decimal(_)
Decimal(n) == IF n < 10 THEN Digit(n) ELSE Decimal(n \div 10) \o Digit(n % 10)

\* The template literal `${n}`: the decimal text of a number.
IdString(n) == Decimal(n)

\* ------------------------------------------------------------ forest
\* W is the process-wide state the operations read and write:
\*   W.trees  = trees_ (sequence of [id, root]),  W.nextID = nextID,
\*   W.heap   = the Expr objects.
\* Operations return W plus `outcome`: "done", "noop" (early return) or
\* "threw" (an exception left the call).

Ret(W, outcome) ==
  [trees |-> W.trees, nextID |-> W.nextID, heap |-> W.heap, outcome |-> outcome]

\* Variant: the id is taken from the forest's size, not from the counter.
newTree_IdFromForestSize(W, root) ==
  [W EXCEPT !.nextID = @ + 1,
            !.trees = Append(@, [id |-> IdString(Len(W.trees) + 1), root |-> root])]

newTree(W, root) ==
  [W EXCEPT !.nextID = @ + 1,
            !.trees = Append(@, [id |-> IdString(W.nextID + 1), root |-> root])]

removeTree(W, tree) ==
  [W EXCEPT !.trees = SelectSeq(@, LAMBDA tree_ : tree_.id # tree.id)]

treeByID(W, id) ==
  LET found == SelectSeq(W.trees, LAMBDA tree : tree.id = id)
  IN IF found = <<>> THEN <<>> ELSE <<Head(found)>>

\* The source's slot is emptied, or its whole tree removed when it is the root.
DetachSource(W, sourceTree, sourceIndexPath, source) ==
  IF source = sourceTree.root
  THEN Ret(removeTree(W, sourceTree), "done")
  ELSE LET sourceParent == exprForIndexPathInTree(W.heap, sourceTree, Front(sourceIndexPath))
       IN IF ~isSExpr(W.heap, sourceParent)
          THEN Ret(W, "threw")
          ELSE Ret([W EXCEPT !.heap = setChildAtIndex(@, sourceParent, Last(sourceIndexPath), hole)],
                   "done")

\* Variant: the displaced destination content is dropped, never promoted.
PlaceAtDestination_DropsDisplaced(W, destinationParent, index, destination, expr) ==
  [W EXCEPT !.heap = setChildAtIndex(@, destinationParent, index, expr)]

\* The destination slot is overwritten; displaced content becomes a new tree.
PlaceAtDestination(W, destinationParent, index, destination, expr) ==
  LET W1 == [W EXCEPT !.heap = setChildAtIndex(@, destinationParent, index, expr)]
  IN IF ~isHole(destination) THEN newTree(W1, destination) ELSE W1

MoveRootGuard(destinationIndexPath) == Len(destinationIndexPath) < 2

\* Variant: neither root check is made (no length guard, no comparison of the
\* destination with its tree's root); a store at no index is ignored.
moveExprInTree_NoRootChecks(W, sourceTree, sourceIndexPath, destinationTree, destIndexPath) ==
  LET source == exprForIndexPathInTree(W.heap, sourceTree, sourceIndexPath)
      destination == exprForIndexPathInTree(W.heap, destinationTree, destIndexPath)
      destinationParent ==
        exprForIndexPathInTree(W.heap, destinationTree, Front(destIndexPath))
      W1 == DetachSource(W, sourceTree, sourceIndexPath, source)
      W2 == IF destIndexPath = <<>> THEN W1
            ELSE [W1 EXCEPT !.heap = setChildAtIndex(@, destinationParent,
                                                     Last(destIndexPath), source)]
  IN IF source = Invalid \/ destination = Invalid \/ destinationParent = Invalid
        \/ ~isSExpr(W.heap, destinationParent)
     THEN Ret(W, "threw")
     ELSE IF destination = source THEN Ret(W, "noop")
     ELSE IF W1.outcome = "threw" THEN W1
     ELSE Ret(IF ~isHole(destination) THEN newTree(W2, destination) ELSE W2, "done")

moveExprInTree(W, sourceTree, sourceIndexPath, destinationTree, destinationIndexPath) ==
  IF MoveRootGuard(destinationIndexPath) THEN Ret(W, "noop")
  ELSE
    LET source == exprForIndexPathInTree(W.heap, sourceTree, sourceIndexPath)
        destination == exprForIndexPathInTree(W.heap, destinationTree, destinationIndexPath)
        destinationParent ==
          exprForIndexPathInTree(W.heap, destinationTree, Front(destinationIndexPath))
    IN IF source = Invalid \/ destination = Invalid \/ destinationParent = Invalid
          \/ ~isSExpr(W.heap, destinationParent)
       THEN Ret(W, "threw")
       ELSE IF destination = source \/ destination = destinationTree.root
       THEN Ret(W, "noop")
       ELSE LET W1 == DetachSource(W, sourceTree, sourceIndexPath, source)
            IN IF W1.outcome = "threw" THEN W1
               ELSE Ret(PlaceAtDestination(W1, destinationParent,
                                           Last(destinationIndexPath), destination, source),
                        "done")

\* lodash cloneDeep: a copy of the object graph below `e` made of fresh
\* objects; shared and cyclic references are kept as such inside the copy
\* (lodash tracks visited objects).  m maps original nodes to their copies.
RECURSIVE cloneNode(_, _, _), cloneKids(_, _, _, _)
cloneNode(h, m, e) ==
  IF isHole(e) THEN [heap |-> h, map |-> m, ref |-> hole]
  ELSE IF e \in DOMAIN m THEN [heap |-> h, map |-> m, ref |-> m[e]]
  ELSE LET self == Len(h) + 1
           r == cloneKids(Append(h, [h[e] EXCEPT !.kids = <<>>]),
                          [x \in DOMAIN m \cup {e} |-> IF x = e THEN self ELSE m[x]],
                          h[e].kids, <<>>)
       IN [heap |-> [r.heap EXCEPT ![self].kids = r.refs], map |-> r.map, ref |-> self]

cloneKids(h, m, kids, acc) ==
  IF kids = <<>> THEN [heap |-> h, map |-> m, refs |-> acc]
  ELSE LET r == cloneNode(h, m, Head(kids))
       IN cloneKids(r.heap, r.map, Tail(kids), Append(acc, r.ref))

cloneDeep(h, e) == cloneNode(h, [x \in {} |-> hole], e)

CopyRootGuard(destinationIndexPath) == Len(destinationIndexPath) < 2

\* Outcome "returned" is the early return of line 102, taken after the source
\* was already detached.
copyExprInTree(W, sourceTree, sourceIndexPath, destinationTree, destinationIndexPath) ==
  IF CopyRootGuard(destinationIndexPath) THEN Ret(W, "noop")
  ELSE
    LET source == exprForIndexPathInTree(W.heap, sourceTree, sourceIndexPath)
    IN IF source = Invalid THEN Ret(W, "threw")
       ELSE
         LET W1 == DetachSource(W, sourceTree, sourceIndexPath, source)
             destination ==
               exprForIndexPathInTree(W1.heap, destinationTree, destinationIndexPath)
             destinationParent ==
               exprForIndexPathInTree(W1.heap, destinationTree, Front(destinationIndexPath))
             copied == cloneDeep(W1.heap, source)
         IN IF W1.outcome = "threw" THEN W1
            ELSE IF destination = Invalid \/ destinationParent = Invalid
                    \/ ~isSExpr(W1.heap, destinationParent)
            THEN Ret(W1, "threw")
            ELSE IF destination = source \/ destination = destinationTree.root
            THEN Ret(W1, "returned")
            ELSE Ret(PlaceAtDestination([W1 EXCEPT !.heap = copied.heap], destinationParent,
                                        Last(destinationIndexPath), destination, copied.ref),
                     "done")

\* setChildAtIndex(parent, undefined, hole): the store orphanExpr makes when
\* its path is empty (path.at(-1) is undefined).  No slot has that index:
\* the store either is ignored or is rejected, as the build decides.
UndefinedIndexStores == {"ignored", "rejected"}

orphanExpr(W, tree, path, undefinedStore) ==
  LET expr == exprForIndexPathInTree(W.heap, tree, path)
      exprParent == exprForIndexPathInTree(W.heap, tree, Front(path))
      promote(V) == IF ~isHole(expr) THEN newTree(V, expr) ELSE V
  IN IF expr = Invalid THEN Ret(W, "threw")
     ELSE IF ~isSExpr(W.heap, exprParent) THEN Ret(W, "noop")
     ELSE IF path = <<>>
     THEN IF undefinedStore = "rejected" THEN Ret(W, "threw") ELSE Ret(promote(W), "done")
     ELSE Ret(promote([W EXCEPT !.heap = setChildAtIndex(@, exprParent, Last(path), hole)]),
              "done")

\* ------------------------------------------------------------ state
VARIABLES
  trees_,   \* the forest: sequence of [id, root]
  nextID,   \* the id counter
  heap,     \* the Expr objects: sequence of [kind, kids, val]
  last,     \* the call the current event handler made: its arguments, how it
            \* ended and the state it started from (history); NoCall when idle
  issued,   \* every id newTree has handed out so far (history)
  ev,       \* the Evaluator object: [baseEnv, env, defines, cells]
  evals,    \* how many evaluations this Evaluator has made
  run,      \* the evaluation just made: program and result (history)
  typing    \* the typechecker call just made: arguments and result (history)

vars == <<trees_, nextID, heap, last, issued, ev, evals, run, typing>>

forestVars == <<trees_, nextID, heap, last, issued>>

evalVars == <<ev, evals, run>>

typeVars == <<typing>>

World == [trees |-> trees_, nextID |-> nextID, heap |-> heap]

NoTree == [id |-> "", root |-> hole]

Call(op, st, sp, dt, dp, outcome) ==
  [op |-> op, st |-> st, sp |-> sp, dt |-> dt, dp |-> dp, outcome |-> outcome,
   pre |-> World]

NoCall ==
  [op |-> "none", st |-> NoTree, sp |-> <<>>, dt |-> NoTree, dp |-> <<>>,
   outcome |-> "done", pre |-> [trees |-> <<>>, nextID |-> 0, heap |-> <<>>]]

\* Expressions a caller hands to newTree: fresh object graphs of these shapes.
THole == [k |-> "hole", v |-> 0, kids |-> <<>>]
TAtom(v) == [k |-> "atom", v |-> v, kids |-> <<>>]
TSExpr(kids) == [k |-> "sexpr", v |-> 0, kids |-> kids]

Templates ==
  { THole, TAtom(1), TSExpr(<<THole, TAtom(2)>>),
    TSExpr(<<TSExpr(<<TAtom(1), THole>>), THole>>) }

RECURSIVE Build(_, _), BuildKids(_, _, _)
Build(h, tpl) ==
  IF tpl.k = "hole" THEN [heap |-> h, ref |-> hole]
  ELSE IF tpl.k = "atom"
  THEN [heap |-> Append(h, [kind |-> "atom", kids |-> <<>>, val |-> tpl.v]),
        ref |-> Len(h) + 1]
  ELSE LET self == Len(h) + 1
           r == BuildKids(Append(h, [kind |-> "sexpr", kids |-> <<>>, val |-> 0]),
                          tpl.kids, <<>>)
       IN [heap |-> [r.heap EXCEPT ![self].kids = r.refs], ref |-> self]

BuildKids(h, kids, acc) ==
  IF kids = <<>> THEN [heap |-> h, refs |-> acc]
  ELSE LET r == Build(h, Head(kids))
       IN BuildKids(r.heap, Tail(kids), Append(acc, r.ref))

\* Index paths a caller passes for a tree: every path that resolves, and
\* every resolving path extended by one index that does not (one past the
\* last slot of a composite node, or any step below an atom or a hole).
RECURSIVE PathsFrom(_, _, _)
PathsFrom(h, e, depth) ==
  {<<>>} \cup
  IF depth = 0 THEN {}
  ELSE IF ~isSExpr(h, e) THEN {<<0>>}
  ELSE {<<Len(h[e].kids)>>} \cup
       UNION { { <<i>> \o p : p \in PathsFrom(h, h[e].kids[i + 1], depth - 1) } :
               i \in 0 .. (Len(h[e].kids) - 1) }

InputPaths(tree) == PathsFrom(heap, tree.root, MaxPathLen)

InForest == { trees_[i] : i \in 1 .. Len(trees_) }

Fits(R) == R.nextID <= MaxID /\ Len(R.heap) <= MaxNodes

\* An event handler makes one call on the idle editor and publishes its effect.
Commit(R, call) ==
  /\ last = NoCall
  /\ Fits(R)
  /\ trees_' = R.trees
  /\ nextID' = R.nextID
  /\ heap' = R.heap
  /\ issued' = issued \cup { R.trees[i].id : i \in 1 .. Len(R.trees) }
  /\ last' = call
  /\ UNCHANGED <<evalVars, typeVars>>

ForestInit ==
  /\ trees_ = <<>>
  /\ nextID = 0
  /\ heap = <<>>
  /\ issued = {}
  /\ last = NoCall

Create ==
  \E tpl \in Templates :
    LET b == Build(heap, tpl)
        R == newTree([World EXCEPT !.heap = b.heap], b.ref)
    IN Commit(R, Call("create", Last(R.trees), <<>>, NoTree, <<>>, "done"))

Remove ==
  \E tree \in InForest :
    Commit(removeTree(World, tree), Call("remove", tree, <<>>, NoTree, <<>>, "done"))

Move ==
  \E st \in InForest, dt \in InForest :
    \E sp \in InputPaths(st), dp \in InputPaths(dt) :
      LET R == moveExprInTree(World, st, sp, dt, dp)
      IN Commit(R, Call("move", st, sp, dt, dp, R.outcome))

Copy ==
  \E st \in InForest, dt \in InForest :
    \E sp \in InputPaths(st), dp \in InputPaths(dt) :
      LET R == copyExprInTree(World, st, sp, dt, dp)
      IN Commit(R, Call("copy", st, sp, dt, dp, R.outcome))

Orphan ==
  \E tree \in InForest, undefinedStore \in UndefinedIndexStores :
    \E path \in InputPaths(tree) :
      LET R == orphanExpr(World, tree, path, undefinedStore)
      IN Commit(R, Call("orphan", tree, path, NoTree, <<>>, R.outcome))

\* The handler ends (the editor rerenders) and the editor is idle again.
Rerender ==
  /\ last # NoCall
  /\ last' = NoCall
  /\ UNCHANGED <<trees_, nextID, heap, issued>>
  /\ UNCHANGED <<evalVars, typeVars>>

\* ------------------------------------------------------------ forest claims
Range(f) == { f[x] : x \in DOMAIN f }

RECURSIVE ReachSet(_, _, _)
ReachSet(h, frontier, seen) ==
  IF frontier = {} THEN seen
  ELSE LET next == (UNION { Range(h[n].kids) : n \in frontier }) \ (seen \cup {hole})
       IN ReachSet(h, next, seen \cup next)

\* The non-hole nodes reachable from a root.
NodesOf(h, root) == IF isHole(root) THEN {} ELSE ReachSet(h, {root}, {root})

TreeIds(ts) == { ts[i].id : i \in 1 .. Len(ts) }

ForestUnchanged == trees_ = last.pre.trees /\ heap = last.pre.heap

\* What the call's locations resolved to when the call was made.
PreSource == exprForIndexPathInTree(last.pre.heap, last.st, last.sp)
PreDestination == exprForIndexPathInTree(last.pre.heap, last.dt, last.dp)

\* C1: no non-hole Expr node is reachable from two different Trees of the
\* Forest, after any sequence of create, remove, move, copy and orphan.
C1_SingleOwnership ==
  \A i, j \in 1 .. Len(trees_) :
    i # j => NodesOf(heap, trees_[i].root) \cap NodesOf(heap, trees_[j].root) = {}

\* C2: after a move to a valid destination path of length >= 1 whose node is
\* neither the source node nor the destination tree's root, the source
\* location resolves to hole, or its tree is gone from the Forest (the source
\* was a root), and the destination location resolves to the node the source
\* location resolved to before.
C2_MoveRelocatesSource ==
  (/\ last.op = "move"
   /\ Len(last.dp) >= 1
   /\ PreSource # Invalid
   /\ PreDestination # Invalid
   /\ PreDestination # PreSource
   /\ PreDestination # last.dt.root)
  =>
  (/\ \/ (last.sp = <<>> /\ last.st.id \notin TreeIds(trees_))
      \/ exprForIndexPathInTree(heap, last.st, last.sp) = hole
   /\ exprForIndexPathInTree(heap, last.dt, last.dp) = PreSource)

\* C3: orphan of a tree's root (empty index path) leaves the Forest unchanged,
\* whatever kind of expression the root is.
C3_OrphanRootIsNoOp ==
  (last.op = "orphan" /\ last.sp = <<>>) => (ForestUnchanged /\ nextID = last.pre.nextID)

\* C4: a move, copy or orphan that fails leaves the set of trees and every
\* slot of every tree as they were before the call.
C4_FailedCallChangesNothing ==
  (last.op \in {"move", "copy", "orphan"} /\ last.outcome = "threw") => ForestUnchanged

\* C5: a move whose destination index path has length 0 changes nothing, for
\* every source location.
C5_MoveToRootIsNoOp ==
  (last.op = "move" /\ last.dp = <<>>) => (ForestUnchanged /\ nextID = last.pre.nextID)

C5_Witness ==
  /\ last.op = "move" /\ last.dp = <<>> /\ last.sp # <<>>
  /\ PreSource \notin {Invalid, hole}
  /\ isSExpr(heap, last.dt.root)

\* C6: when a move overwrites a destination slot whose content is not a hole,
\* that content becomes the root of a newly created Tree; when the content is
\* a hole, no Tree is created.
C6_DisplacedContentBecomesTree ==
  (last.op = "move" /\ last.outcome = "done") =>
    IF ~isHole(PreDestination)
    THEN /\ nextID = last.pre.nextID + 1
         /\ trees_ # <<>>
         /\ Last(trees_).root = PreDestination
         /\ Last(trees_).id \notin TreeIds(last.pre.trees)
         /\ TreeIds(Front(trees_)) \subseteq TreeIds(last.pre.trees)
    ELSE /\ nextID = last.pre.nextID
         /\ TreeIds(trees_) \subseteq TreeIds(last.pre.trees)

C6_Witness ==
  /\ last.op = "move" /\ last.outcome = "done"
  /\ ~isHole(PreDestination)
  /\ exprForIndexPathInTree(heap, last.dt, last.dp) = PreSource
  /\ \E i \in 1 .. Len(trees_) : trees_[i].root = PreDestination

\* Structural equality of two object graphs, compared to a given depth.
RECURSIVE StructEq(_, _, _, _, _)
StructEq(h1, e1, h2, e2, depth) ==
  IF isHole(e1) \/ isHole(e2) THEN e1 = e2
  ELSE /\ h1[e1].kind = h2[e2].kind
       /\ h1[e1].val = h2[e2].val
       /\ Len(h1[e1].kids) = Len(h2[e2].kids)
       /\ depth > 0 =>
            \A i \in 1 .. Len(h1[e1].kids) :
              StructEq(h1, h1[e1].kids[i], h2, h2[e2].kids[i], depth - 1)

\* The destination now holds a copy of the original source: equal in
\* structure, and no node of it is a node of the original.
DestinationHoldsDuplicate ==
  LET placed == exprForIndexPathInTree(heap, last.dt, last.dp)
  IN /\ placed # Invalid
     /\ StructEq(heap, placed, last.pre.heap, PreSource, MaxNodes)
     /\ NodesOf(heap, placed) \cap NodesOf(last.pre.heap, PreSource) = {}

\* C7: after a copy of a non-root source to a valid destination path of
\* length >= 1 that is a different node, the source location resolves to hole
\* and the destination location resolves to a value structurally equal to the
\* original source subtree that shares no node with it.
C7_CopyDuplicatesSource ==
  (/\ last.op = "copy"
   /\ Len(last.dp) >= 1
   /\ PreSource # Invalid
   /\ PreSource # last.st.root
   /\ PreDestination # Invalid
   /\ PreDestination # PreSource)
  =>
  (/\ exprForIndexPathInTree(heap, last.st, last.sp) = hole
   /\ DestinationHoldsDuplicate)

\* C8: a copy whose source is the root of its own tree removes that Tree from
\* the Forest and places a duplicate of the source at the destination.
C8_CopyOfRootRemovesSourceTree ==
  (/\ last.op = "copy"
   /\ Len(last.dp) >= 1
   /\ PreSource = last.st.root
   /\ PreDestination # Invalid
   /\ PreDestination # PreSource
   /\ PreDestination # last.dt.root)
  =>
  (/\ last.st.id \notin TreeIds(trees_)
   /\ DestinationHoldsDuplicate)

\* C9: the ids of the Trees in the Forest are pairwise distinct, and an id
\* given to one Tree is never given to a later one, also after the first was
\* removed: the ids handed out so far are as many as the Trees ever created.
C9_IdsUniqueNeverReused ==
  /\ \A i, j \in 1 .. Len(trees_) : i # j => trees_[i].id # trees_[j].id
  /\ Cardinality(issued) = nextID

C9_Witness ==
  /\ last.op = "create"
  /\ Len(last.pre.trees) = 0 /\ last.pre.nextID >= 1
  /\ Len(trees_) = 1

\* ============================================================ Part II
\* The call-by-value evaluator (evaluate.ts, class Evaluator) over the
\* Environment model (environments.ts).  An evaluator object is the record
\*   E = [baseEnv, env, defines, cells, trace]
\* where env is this.env (Nil while it is undefined), defines the Defines
\* table and cells the Cell objects (a Cell is an index into E.cells, so
\* that closures and scopes share it by reference).  trace is a history
\* variable: the expressions #eval_ was entered with, in order.  Every operation returns
\*   [E, ok, value, error]: the evaluator afterwards and either a value or
\* the exception that left the call.

\* Most nested #eval calls before the JavaScript stack overflows.
MaxDepth == 10

Nil == [kind |-> "undefined"]

EmptyCell == [has |-> FALSE, value |-> Nil]

FullCell(value) == [has |-> TRUE, value |-> value]

EmptyEnv == [name \in {} |-> Nil]

\* makeEnv: keyBy(bindings, name); a later binding of a name replaces an
\* earlier one.
RECURSIVE makeEnv(_)
makeEnv(bindings) ==
  IF bindings = <<>> THEN EmptyEnv
  ELSE LET b == bindings[Len(bindings)]
       IN (b.name :> b) @@ makeEnv(SubSeq(bindings, 1, Len(bindings) - 1))

\* mergeEnvs(a, b) = Object.assign({}, a, b): keys of b win.
mergeEnvs(a, b) == b @@ a

Ok(E, value) == [E |-> E, ok |-> TRUE, value |-> value, error |-> ""]

Throw(E, error) == [E |-> E, ok |-> FALSE, value |-> Nil, error |-> error]

EmptyList == [kind |-> "list", heads |-> <<>>]

\* The hole as the evaluator meets it: a datum that isHole recognises.
HoleExpr == [kind |-> "symbol", value |-> "hole"]

isHoleExpr(expr) == expr = HoleExpr

\* valueAsBool: only the boolean false is falsy.
valueAsBool(value) == ~(value.kind = "bool" /\ value.value = FALSE)

\* The dynamic type tag a declared parameter type is compared with.
ValueTag(value) ==
  CASE value.kind = "number" -> "Number"
    [] value.kind = "bool" -> "Boolean"
    [] value.kind = "string" -> "String"
    [] value.kind = "symbol" -> "Symbol"
    [] value.kind = "list" -> "List"
    [] value.kind = "fn" -> "Function"
    [] OTHER -> "Any"

isVariadic(param) == "variadic" \in DOMAIN param /\ param.variadic

\* checkCallAgainstTypeSignature: "" when the call is accepted, else the error.
checkCallAgainstTypeSignature(args, signature) ==
  LET variadic == signature # <<>> /\ isVariadic(signature[Len(signature)])
      fixed == IF variadic THEN Len(signature) - 1 ELSE Len(signature)
      formal(i) == IF i <= Len(signature) THEN signature[i] ELSE signature[Len(signature)]
  IN IF (~variadic /\ Len(args) # fixed) \/ (variadic /\ Len(args) < fixed)
     THEN "ArityMismatch"
     ELSE IF \E i \in 1 .. Len(args) :
               /\ "type" \in DOMAIN formal(i)
               /\ formal(i).type \notin {"Any", ValueTag(args[i])}
     THEN "TypeMismatch"
     ELSE ""

\* Defines: producers by name and the cells already produced.
NoDefines == [thunks |-> EmptyEnv, cells |-> EmptyEnv]

Defines_add(D, name, thunk) == [D EXCEPT !.thunks = (name :> thunk) @@ @]

\* Defines.addAll(defines): add for every [name, thunk] pair, in order.
RECURSIVE Defines_addAll(_, _)
Defines_addAll(D, pairs) ==
  IF pairs = <<>> THEN D
  ELSE Defines_addAll(Defines_add(D, Head(pairs)[1], Head(pairs)[2]), Tail(pairs))

\* The builtins of the base environment that the programs here use.
NullBuiltin == [kind |-> "fn", signature |-> <<>>, body |-> [native |-> "null"]]

LessBuiltin ==
  [kind |-> "fn", signature |-> <<[name |-> "numbers", type |-> "Number", variadic |-> TRUE]>>,
   body |-> [native |-> "<"]]

GreaterBuiltin ==
  [kind |-> "fn", signature |-> <<[name |-> "numbers", type |-> "Number", variadic |-> TRUE]>>,
   body |-> [native |-> ">"]]

MapBuiltin ==
  [kind |-> "fn",
   signature |-> <<[name |-> "function", type |-> "Function"],
                   [name |-> "lists", type |-> "List", variadic |-> TRUE]>>,
   body |-> [native |-> "map"]]

ForEachBuiltin ==
  [kind |-> "fn",
   signature |-> <<[name |-> "proc", type |-> "Function"],
                   [name |-> "lists", type |-> "List", variadic |-> TRUE]>>,
   body |-> [native |-> "for-each"]]

InitialEnvironment == ("null" :> [name |-> "null", cell |-> 1])

InitialCells == <<FullCell(NullBuiltin)>>

\* new Evaluator(options): baseEnv and defines are taken from the options
\* object's properties of those names, else defaulted; env is not assigned.
Evaluator_constructor(options) ==
  [baseEnv |-> IF "baseEnv" \in DOMAIN options THEN options.baseEnv ELSE InitialEnvironment,
   env |-> Nil,
   defines |-> IF "defines" \in DOMAIN options THEN options.defines ELSE NoDefines,
   cells |-> InitialCells,
   trace |-> <<>>]

\* new Evaluator()
NewEvaluator == Evaluator_constructor(EmptyEnv)

isNative(body) == "native" \in DOMAIN body

RECURSIVE Evaluator_evalIn(_, _, _, _, _, _, _)
RECURSIVE Evaluator_eval_(_, _, _)
RECURSIVE Evaluator_call(_, _, _, _)
RECURSIVE Evaluator_get(_, _, _)
RECURSIVE Defines_get(_, _, _)
RECURSIVE EvalEach(_, _, _, _)
RECURSIVE EvalLetrecValues(_, _, _, _)
RECURSIVE BindParams(_, _, _, _, _)
RECURSIVE ForceThunk(_, _, _, _)
RECURSIVE NativeBody(_, _, _, _)

\* getVariadic(index, args): the arguments from position index on.
getVariadic(index, args) == SubSeq(args, index + 1, Len(args))

\* listValueAsVector: the elements of a proper list (items), undefined
\* for an improper one.
listValueAsVector(list) ==
  IF "tail" \in DOMAIN list THEN [defined |-> FALSE, items |-> <<>>]
  ELSE [defined |-> TRUE, items |-> list.heads]

LessThan(item1, item2) == item1.value < item2.value

GreaterThan(item1, item2) == item1.value > item2.value

\* The comparison a builtin hands to chainCompare, named by the builtin.
Compare(compare, item1, item2) ==
  IF compare = "<" THEN LessThan(item1, item2) ELSE GreaterThan(item1, item2)

\* chainCompare's loop from item i on, prev being the item before it: it
\* ends unsatisfied at the first pair that does not compare.
RECURSIVE chainCompareFrom(_, _, _, _)
chainCompareFrom(items, compare, i, prev) ==
  IF i > Len(items) THEN TRUE
  ELSE IF Compare(compare, prev, items[i]) THEN chainCompareFrom(items, compare, i + 1, items[i])
  ELSE FALSE

chainCompare(items, compare) ==
  IF Len(items) = 0 THEN TRUE ELSE chainCompareFrom(items, compare, 2, items[1])

\* The column loop of map and for-each: column i is taken while i is below
\* the length of the first list; a row without an entry at i is an error;
\* fn is called on the column through the evaluator.
RECURSIVE CallOnColumns(_, _, _, _, _, _)
CallOnColumns(E, fn, rows, i, results, depth) ==
  IF i > Len(rows[1]) THEN Ok(E, results)
  ELSE IF \E r \in 1 .. Len(rows) : i > Len(rows[r]) THEN Throw(E, "DifferentLength")
  ELSE LET col == [r \in 1 .. Len(rows) |-> rows[r][i]]
           called == Evaluator_call(E, fn, col, depth)
       IN IF ~called.ok THEN called
          ELSE CallOnColumns(called.E, fn, rows, i + 1, Append(results, called.value), depth)

\* The body of map (keepResults) and of for-each.
MapBody(E, args, keepResults, depth) ==
  LET fn == args[1]
      lists == getVariadic(1, args)
      vectors == [r \in 1 .. Len(lists) |-> listValueAsVector(lists[r])]
      rows == [r \in 1 .. Len(lists) |-> vectors[r].items]
      looped == CallOnColumns(E, fn, rows, 1, <<>>, depth)
  IN IF Len(lists) = 0 THEN Ok(E, EmptyList)
     ELSE IF \E r \in 1 .. Len(vectors) : ~vectors[r].defined THEN Throw(E, "ImproperList")
     ELSE IF ~looped.ok THEN looped
     ELSE Ok(looped.E, IF keepResults THEN [kind |-> "list", heads |-> looped.value]
                       ELSE EmptyList)

\* A builtin's native body applied to the raw argument values and the
\* evaluator.
NativeBody(E, body, args, depth) ==
  CASE body.native = "null" -> Ok(E, EmptyList)
    [] body.native = "<" ->
         Ok(E, [kind |-> "bool", value |-> chainCompare(getVariadic(0, args), "<")])
    [] body.native = ">" ->
         Ok(E, [kind |-> "bool", value |-> chainCompare(getVariadic(0, args), ">")])
    [] body.native = "map" -> MapBody(E, args, TRUE, depth)
    [] body.native = "for-each" -> MapBody(E, args, FALSE, depth)
    [] OTHER -> Throw(E, "NotImplemented")

\* #eval(expr, {env, extendEnv}): this.env is replaced for the evaluation
\* and put back after it (not when the evaluation throws).
Evaluator_evalIn(E, expr, hasEnv, env, hasExtendEnv, extendEnv, depth) ==
  IF depth = 0 THEN Throw(E, "StackOverflow")
  ELSE
    LET prevEnv == E.env
        E1 == IF hasEnv THEN [E EXCEPT !.env = mergeEnvs(E.baseEnv, env)] ELSE E
        E2 == IF hasExtendEnv
              THEN [E1 EXCEPT !.env = mergeEnvs(IF @ = Nil THEN EmptyEnv ELSE @, extendEnv)]
              ELSE E1
        entered == [E2 EXCEPT !.trace = Append(@, expr)]
        result == Evaluator_eval_(entered, expr, depth - 1)
    IN IF result.ok THEN [result EXCEPT !.E.env = prevEnv] ELSE result

\* this.#eval(expr): evaluation in the current this.env.
EvalHere(E, expr, depth) ==
  Evaluator_evalIn(E, expr, FALSE, EmptyEnv, FALSE, EmptyEnv, depth)

\* Variant: exprs evaluated right to left.
RECURSIVE EvalEach_RightToLeft(_, _, _, _)
EvalEach_RightToLeft(E, exprs, acc, depth) ==
  IF exprs = <<>> THEN Ok(E, acc)
  ELSE LET r == EvalHere(E, exprs[Len(exprs)], depth)
       IN IF ~r.ok THEN r
          ELSE EvalEach_RightToLeft(r.E, SubSeq(exprs, 1, Len(exprs) - 1),
                                    <<r.value>> \o acc, depth)

\* exprs evaluated left to right; stops at the first exception.
EvalEach(E, exprs, acc, depth) ==
  IF exprs = <<>> THEN Ok(E, acc)
  ELSE LET r == EvalHere(E, Head(exprs), depth)
       IN IF ~r.ok THEN r ELSE EvalEach(r.E, Tail(exprs), Append(acc, r.value), depth)

\* letrec's forEach: each value expression is evaluated in the current
\* this.env and stored into the cell pre-allocated for its name.
EvalLetrecValues(E, bindings, cellOf, depth) ==
  IF bindings = <<>> THEN Ok(E, EmptyList)
  ELSE LET r == EvalHere(E, Head(bindings)[2], depth)
           cell == cellOf[Head(bindings)[1].id]
       IN IF ~r.ok THEN r
          ELSE EvalLetrecValues([r.E EXCEPT !.cells[cell] = FullCell(r.value)],
                                Tail(bindings), cellOf, depth)

\* Variant: Defines is asked first, the lexical environment after it.
Evaluator_get_DefinesFirst(E, name, depth) ==
  LET global == Defines_get(E, name, depth)
  IN IF E.env = Nil THEN Throw(E, "TypeError")
     ELSE IF ~global.ok \/ global.value # 0 THEN global
     ELSE IF name \in DOMAIN E.env THEN Ok(E, E.env[name].cell)
     ELSE Ok(E, 0)

\* #get(name): this.env[name]?.cell ?? this.defines.get(name).
\* value is the Cell (an index) or 0 for undefined.
Evaluator_get(E, name, depth) ==
  IF E.env = Nil THEN Throw(E, "TypeError")
  ELSE IF name \in DOMAIN E.env THEN Ok(E, E.env[name].cell)
  ELSE Defines_get(E, name, depth)

\* The producer that `define` registers: () => ({ value: this.#eval(value) }).
\* detached tells that `this` is another Evaluator than the one forcing it,
\* one whose own eval has returned (its env is undefined again).
DefineThunk(value, detached) == [kind |-> "define", value |-> value, detached |-> detached]

\* The producer the editor registers for a top-level define tree.
TreeThunk(define) == [kind |-> "tree", define |-> define]

\* A producer invoked: value is the Cell (an index) it yields, or 0.
ForceThunk(E, name, thunk, depth) ==
  IF thunk.kind = "define"
  THEN LET prevEnv == E.env
           r == EvalHere(IF thunk.detached THEN [E EXCEPT !.env = Nil] ELSE E,
                         thunk.value, depth)
           cell == Len(r.E.cells) + 1
       IN IF ~r.ok THEN r
          ELSE Ok([r.E EXCEPT !.cells = Append(@, FullCell(r.value)), !.env = prevEnv], cell)
  ELSE LET define == thunk.define
           registered == [E EXCEPT !.defines = Defines_add(@, define.name.id,
                                                           DefineThunk(define.value, TRUE))]
       IN Defines_get(registered, define.name.id, depth)

\* Variant: the producer stays in the table while it is invoked.
Defines_get_KeepsProducer(E, name, depth) ==
  IF name \in DOMAIN E.defines.cells THEN Ok(E, E.defines.cells[name])
  ELSE IF name \notin DOMAIN E.defines.thunks THEN Ok(E, 0)
  ELSE LET r == ForceThunk(E, name, E.defines.thunks[name], depth)
       IN IF ~r.ok \/ r.value = 0 THEN r
          ELSE Ok([r.E EXCEPT !.defines.cells = (name :> r.value) @@ @], r.value)

\* Defines.get(name): the cached cell, else the cell of the producer, which
\* is taken out of the table before it is invoked and whose cell is cached,
\* else undefined; a producer that looks up its own name finds it undefined.
Defines_get(E, name, depth) ==
  IF name \in DOMAIN E.defines.cells THEN Ok(E, E.defines.cells[name])
  ELSE IF name \notin DOMAIN E.defines.thunks THEN Ok(E, 0)
  ELSE LET thunks == E.defines.thunks
           taken == [E EXCEPT !.defines.thunks = [n \in DOMAIN thunks \ {name} |-> thunks[n]]]
           r == ForceThunk(taken, name, thunks[name], depth)
       IN IF ~r.ok \/ r.value = 0 THEN r
          ELSE Ok([r.E EXCEPT !.defines.cells = (name :> r.value) @@ @], r.value)

\* call's loop: parameter i is bound to argument i in a fresh cell, for
\* i < min(args.length, signature.length).
BindParams(E, callEnv, signature, args, i) ==
  IF i > Len(args) \/ i > Len(signature) THEN [E |-> E, env |-> callEnv]
  ELSE LET cell == Len(E.cells) + 1
           name == signature[i].name
       IN BindParams([E EXCEPT !.cells = Append(@, FullCell(args[i]))],
                     mergeEnvs(callEnv, (name :> [name |-> name, cell |-> cell])),
                     signature, args, i + 1)

\* Variant: the parameters extend the environment of the call site.
Evaluator_call_DynamicScope(E, fn, args, depth) ==
  LET refused == checkCallAgainstTypeSignature(args, fn.signature)
      bound == BindParams(E, IF E.env = Nil THEN EmptyEnv ELSE E.env, fn.signature, args, 1)
  IN IF refused # "" THEN Throw(E, refused)
     ELSE IF isNative(fn.body) THEN NativeBody(bound.E, fn.body, args, depth)
     ELSE Evaluator_evalIn(bound.E, fn.body, TRUE, bound.env, FALSE, EmptyEnv, depth)

\* Variant: the arguments are not validated against the signature.
Evaluator_call_Unchecked(E, fn, args, depth) ==
  LET bound == BindParams(E, IF "env" \in DOMAIN fn /\ fn.env # Nil THEN fn.env ELSE EmptyEnv,
                          fn.signature, args, 1)
  IN IF isNative(fn.body) THEN NativeBody(bound.E, fn.body, args, depth)
     ELSE Evaluator_evalIn(bound.E, fn.body, TRUE, bound.env, FALSE, EmptyEnv, depth)

Evaluator_call(E, fn, args, depth) ==
  LET refused == checkCallAgainstTypeSignature(args, fn.signature)
      bound == BindParams(E, IF "env" \in DOMAIN fn /\ fn.env # Nil THEN fn.env ELSE EmptyEnv,
                          fn.signature, args, 1)
  IN IF refused # "" THEN Throw(E, refused)
     ELSE IF isNative(fn.body) THEN NativeBody(bound.E, fn.body, args, depth)
     ELSE Evaluator_evalIn(bound.E, fn.body, TRUE, bound.env, FALSE, EmptyEnv, depth)

\* A fresh cell for each binding, in order: [E, bindings (name, cell)].
RECURSIVE AllocCells(_, _, _, _)
AllocCells(E, names, contents, acc) ==
  IF names = <<>> THEN [E |-> E, bindings |-> acc]
  ELSE AllocCells([E EXCEPT !.cells = Append(@, Head(contents))],
                  Tail(names), Tail(contents),
                  Append(acc, [name |-> Head(names), cell |-> Len(E.cells) + 1]))

BindingNames(bindings) == [i \in 1 .. Len(bindings) |-> bindings[i][1].id]

BindingValues(bindings) == [i \in 1 .. Len(bindings) |-> bindings[i][2]]

\* Variant: the value of the first sub-expression is kept.
RECURSIVE EvalSequence_KeepsFirst(_, _, _, _)
EvalSequence_KeepsFirst(E, exprs, result, depth) ==
  IF exprs = <<>> THEN Ok(E, result)
  ELSE LET r == EvalHere(E, Head(exprs), depth)
       IN IF ~r.ok THEN r
          ELSE EvalSequence_KeepsFirst(r.E, Tail(exprs),
                                       IF result = EmptyList THEN r.value ELSE result, depth)

RECURSIVE EvalSequence(_, _, _, _)
EvalSequence(E, exprs, result, depth) ==
  IF exprs = <<>> THEN Ok(E, result)
  ELSE LET r == EvalHere(E, Head(exprs), depth)
       IN IF ~r.ok THEN r ELSE EvalSequence(r.E, Tail(exprs), r.value, depth)

\* Variant: each value expression sees the bindings before it (let*).
RECURSIVE EvalLet_Sequential_(_, _, _, _, _)
EvalLet_Sequential_(E, bindings, body, extendEnv, depth) ==
  IF bindings = <<>>
  THEN Evaluator_evalIn(E, body, FALSE, EmptyEnv, TRUE, extendEnv, depth)
  ELSE LET r == Evaluator_evalIn(E, Head(bindings)[2], FALSE, EmptyEnv, TRUE, extendEnv, depth)
           name == Head(bindings)[1].id
           cell == Len(r.E.cells) + 1
       IN IF ~r.ok THEN r
          ELSE EvalLet_Sequential_([r.E EXCEPT !.cells = Append(@, FullCell(r.value))],
                                   Tail(bindings), body,
                                   (name :> [name |-> name, cell |-> cell]) @@ extendEnv, depth)

EvalLet_Sequential(E, expr, depth) ==
  EvalLet_Sequential_(E, expr.bindings, expr.body, EmptyEnv, depth)

\* The let case of #eval_.
EvalLet(E, expr, depth) ==
  LET values == EvalEach(E, BindingValues(expr.bindings), <<>>, depth)
      alloc == AllocCells(values.E, BindingNames(expr.bindings),
                          [i \in 1 .. Len(values.value) |-> FullCell(values.value[i])],
                          <<>>)
  IN IF ~values.ok THEN values
     ELSE Evaluator_evalIn(alloc.E, expr.body, FALSE, EmptyEnv,
                           TRUE, makeEnv(alloc.bindings), depth)

\* Variant: define evaluates its value expression at once.
EvalDefine_Eager(E, expr, depth) ==
  LET r == EvalHere(E, expr.value, depth)
  IN IF expr.name.kind # "name-binding" THEN Throw(E, "DefineNeedsName")
     ELSE IF ~r.ok THEN r
     ELSE Ok([r.E EXCEPT !.defines = Defines_add(@, expr.name.id,
                                                 DefineThunk(expr.value, FALSE))],
             EmptyList)

\* The define case of #eval_.
EvalDefine(E, expr, depth) ==
  IF expr.name.kind # "name-binding" THEN Throw(E, "DefineNeedsName")
  ELSE Ok([E EXCEPT !.defines = Defines_add(@, expr.name.id, DefineThunk(expr.value, FALSE))],
          EmptyList)

\* #eval_(expr): the switch over expr.kind.
Evaluator_eval_(E, expr, depth) ==
  CASE expr.kind \in {"number", "bool", "string", "symbol", "list"} ->
         IF isHoleExpr(expr) THEN Throw(E, "HoleEvaluated") ELSE Ok(E, expr)
    [] expr.kind = "var" ->
         LET got == Evaluator_get(E, expr.id, depth)
         IN IF ~got.ok THEN got
            ELSE IF got.value = 0 \/ ~got.E.cells[got.value].has
            THEN Throw(got.E, "UnboundVariable")
            ELSE Ok(got.E, got.E.cells[got.value].value)
    [] expr.kind = "call" ->
         LET calledValue == EvalHere(E, expr.called, depth)
             argValues == EvalEach(calledValue.E, expr.args, <<>>, depth)
         IN IF ~calledValue.ok THEN calledValue
            ELSE IF calledValue.value.kind # "fn" THEN Throw(calledValue.E, "NotCallable")
            ELSE IF ~argValues.ok THEN argValues
            ELSE Evaluator_call(argValues.E, calledValue.value, argValues.value, depth)
    [] expr.kind = "define" -> EvalDefine(E, expr, depth)
    [] expr.kind = "let" -> EvalLet(E, expr, depth)
    [] expr.kind = "letrec" ->
         LET alloc == AllocCells(E, BindingNames(expr.bindings),
                                 [i \in 1 .. Len(expr.bindings) |-> EmptyCell], <<>>)
             valueBindings == makeEnv(alloc.bindings)
             filled == EvalLetrecValues(alloc.E, expr.bindings,
                                        [n \in DOMAIN valueBindings |-> valueBindings[n].cell],
                                        depth)
         IN IF ~filled.ok THEN filled
            ELSE Evaluator_evalIn(filled.E, expr.body, FALSE, EmptyEnv,
                                  TRUE, valueBindings, depth)
    [] expr.kind = "lambda" ->
         Ok(E, [kind |-> "fn",
                signature |-> [i \in 1 .. Len(expr.params) |-> [name |-> expr.params[i].id]],
                body |-> expr.body,
                env |-> E.env])
    [] expr.kind = "sequence" -> EvalSequence(E, expr.exprs, EmptyList, depth)
    [] expr.kind = "if" ->
         LET condition == EvalHere(E, expr.if, depth)
         IN IF ~condition.ok THEN condition
            ELSE EvalHere(condition.E,
                          IF valueAsBool(condition.value) THEN expr.then ELSE expr.else,
                          depth)
    [] OTHER -> Throw(E, "NotImplemented")

\* eval(expr, env = {}): the public entry.
Evaluator_eval(E, expr, env) ==
  Evaluator_evalIn(E, expr, TRUE, env, FALSE, EmptyEnv, MaxDepth)

\* ------------------------------------------------------------ programs
Num(n) == [kind |-> "number", value |-> n]
Bool(b) == [kind |-> "bool", value |-> b]
Str(t) == [kind |-> "string", value |-> t]
Var(id) == [kind |-> "var", id |-> id]
NameBinding(id) == [kind |-> "name-binding", id |-> id]
CallE(called, args) == [kind |-> "call", called |-> called, args |-> args]
Lambda(params, body) ==
  [kind |-> "lambda", params |-> [i \in 1 .. Len(params) |-> NameBinding(params[i])],
   body |-> body]
Letrec(bindings, body) == [kind |-> "letrec", bindings |-> bindings, body |-> body]
Let(bindings, body) == [kind |-> "let", bindings |-> bindings, body |-> body]
Define(id, value) == [kind |-> "define", name |-> NameBinding(id), value |-> value]
Sequence(exprs) == [kind |-> "sequence", exprs |-> exprs]
If(c, t, e) == [kind |-> "if", if |-> c, then |-> t, else |-> e]

\* A program: the expression, the values bound in the environment passed to
\* eval, the family it belongs to and what the family's programs must yield
\* (a closure with body `expect`, or the value `expect`).
Program(family, expr, env, closure, expect) ==
  [family |-> family, expr |-> expr, env |-> env, closure |-> closure, expect |-> expect]

\* The lambda bound to `name` in the letrec programs; it returns what `ref`
\* names.  The leading string makes the two siblings' bodies differ.
SiblingBody(name, ref) == Sequence(<<Str(name), Var(ref)>>)

OuterEnvs == { EmptyEnv, ("g" :> Num(42)), ("f" :> Num(41)) @@ ("g" :> Num(42)) }

\* (letrec ((f (lambda () .. refF)) (g (lambda () .. refG))) (callee)):
\* the callee's body names itself or its sibling; the result must be that
\* binding's closure.
ClosureLetrecPrograms ==
  { Program("letrec-closure",
            Letrec(<< <<NameBinding("f"), Lambda(<<>>, SiblingBody("f", refs[1]))>>,
                      <<NameBinding("g"), Lambda(<<>>, SiblingBody("g", refs[2]))>> >>,
                   CallE(Var(callee), <<>>)),
            env, TRUE,
            LET target == IF callee = "f" THEN refs[1] ELSE refs[2]
            IN SiblingBody(target, IF target = "f" THEN refs[1] ELSE refs[2])) :
      refs \in {"f", "g"} \X {"f", "g"}, callee \in {"f", "g"}, env \in OuterEnvs }

\* (letrec ((f (lambda (x) (g x))) (g (lambda (y) y))) (f n)): f calls its
\* later sibling; the result must be n.
CallingLetrecPrograms ==
  { Program("letrec-call",
            Letrec(<< <<NameBinding("f"), Lambda(<<"x">>, CallE(Var("g"), <<Var("x")>>))>>,
                      <<NameBinding("g"), Lambda(<<"y">>, Var("y"))>> >>,
                   CallE(Var("f"), <<Num(n)>>)),
            env, FALSE, Num(n)) :
      n \in {7}, env \in OuterEnvs }

\* Programs of the evaluator's unit tests.
UnitTestPrograms ==
  { Program("literal", Num(42), EmptyEnv, FALSE, Num(42)),
    Program("var", Var("x"), ("x" :> Num(42)), FALSE, Num(42)),
    Program("sequence", Sequence(<<Bool(FALSE), Str("result")>>), EmptyEnv, FALSE,
            Str("result")),
    Program("call", CallE(Lambda(<<"x", "y">>, Var("y")), <<Num(0), Str("")>>), EmptyEnv,
            FALSE, Str("")),
    Program("builtin", CallE(Var("null"), <<>>), EmptyEnv, FALSE, EmptyList) }

\* What a program must do: return `value`, or fail with `error`.
Returns(value) == [ok |-> TRUE, value |-> value]

Fails(error) == [ok |-> FALSE, error |-> error]

\* (let ((x 1)) (let ((f (lambda () x))) (let ((x 2)) (f)))): the call site
\* rebinds a name the closure captured; (let ((f (lambda () y)))
\* (let ((y 2)) (f))): the call site binds a name the closure did not
\* capture; (let ((x 1)) ((lambda (x) x) 5)): a parameter shadows a captured
\* name.
LexicalScopePrograms ==
  { Program("lexical",
            Let(<< <<NameBinding("x"), Num(1)>> >>,
                Let(<< <<NameBinding("f"), Lambda(<<>>, Var("x"))>> >>,
                    Let(<< <<NameBinding("x"), Num(2)>> >>, CallE(Var("f"), <<>>)))),
            EmptyEnv, FALSE, Returns(Num(1))),
    Program("lexical",
            Let(<< <<NameBinding("f"), Lambda(<<>>, Var("y"))>> >>,
                Let(<< <<NameBinding("y"), Num(2)>> >>, CallE(Var("f"), <<>>))),
            EmptyEnv, FALSE, Fails("UnboundVariable")),
    Program("lexical",
            Let(<< <<NameBinding("x"), Num(1)>> >>, CallE(Lambda(<<"x">>, Var("x")), <<Num(5)>>)),
            EmptyEnv, FALSE, Returns(Num(5))),
    Program("lexical",
            Let(<< <<NameBinding("f"), Lambda(<<"p">>, Var("x"))>> >>,
                Let(<< <<NameBinding("x"), Num(2)>> >>, CallE(Var("f"), <<Num(5)>>))),
            ("x" :> Num(42)), FALSE, Returns(Num(42))) }

\* A parameter as the editor writes it: a name-binding that may carry a
\* declared type and the variadic mark.
Param(id, attributes) == NameBinding(id) @@ attributes

\* What the signature entry of a parameter has to hold.
SignatureOf(params) ==
  [i \in 1 .. Len(params) |->
     [f \in DOMAIN params[i] \ {"kind", "id"} |-> params[i][f]] @@ [name |-> params[i].id]]

\* Lambdas with plain, typed and variadic parameters; the body would fail
\* if it were evaluated.
LambdaParams ==
  { <<>>,
    <<Param("x", EmptyEnv)>>,
    <<Param("x", EmptyEnv), Param("y", EmptyEnv)>>,
    <<Param("x", [type |-> "Number"])>>,
    <<Param("x", EmptyEnv), Param("rest", [variadic |-> TRUE])>>,
    <<Param("x", [type |-> "Number"]), Param("rest", [type |-> "Number", variadic |-> TRUE])>> }

LambdaPrograms ==
  { Program("lambda", [kind |-> "lambda", params |-> params, body |-> HoleExpr], env,
            TRUE, SignatureOf(params)) :
      params \in LambdaParams, env \in {EmptyEnv, ("x" :> Num(42))} }

\* Most arguments of a direct call.
MaxArgs == 3

\* The function values and argument lists handed to call(fn, args) directly:
\* builtin-bodied functions with plain, typed and variadic signatures, and
\* a closure.
Signatures ==
  { <<>>,
    <<[name |-> "x"]>>,
    <<[name |-> "x"], [name |-> "y"]>>,
    <<[name |-> "x", type |-> "Boolean"]>>,
    <<[name |-> "x", type |-> "Number"]>>,
    <<[name |-> "x", variadic |-> TRUE]>>,
    <<[name |-> "x"], [name |-> "rest", variadic |-> TRUE]>>,
    <<[name |-> "x", type |-> "Number"], [name |-> "rest", type |-> "Number", variadic |-> TRUE]>> }

FnValues ==
  { [kind |-> "fn", signature |-> signature, body |-> [native |-> "null"]] :
      signature \in Signatures }
  \cup { [kind |-> "fn", signature |-> <<>>, body |-> Num(42)],
         [kind |-> "fn", signature |-> <<[name |-> "x"]>>, body |-> Var("x")] }

ArgLists ==
  UNION { [1 .. n -> {Bool(TRUE), Num(123)}] : n \in 0 .. MaxArgs }

\* The expression-level form: a zero-parameter lambda called with no
\* argument and with one.
ArityPrograms ==
  { Program("arity", CallE(Lambda(<<>>, Num(42)), <<>>), EmptyEnv, FALSE, Returns(Num(42))),
    Program("arity", CallE(Lambda(<<>>, Num(42)), <<Num(1)>>), EmptyEnv, FALSE,
            Fails("ArityMismatch")),
    Program("arity", CallE(Lambda(<<"x", "y">>, Var("y")), <<Num(1)>>), EmptyEnv, FALSE,
            Fails("ArityMismatch")) }

\* Lookups of v, which only these programs define (as 43), of w, which
\* nothing defines, and of the builtin null: bound lexically only, in
\* Defines only, in both, in neither.
VarPrograms ==
  LET defineV == Define("v", Num(43))
  IN { Program("lookup", Var("w"), EmptyEnv, FALSE, Fails("UnboundVariable")),
       Program("lookup", Var("v"), ("v" :> Num(1)), FALSE, Returns(Num(1))),
       Program("lookup", defineV, EmptyEnv, FALSE, Returns(EmptyList)),
       Program("lookup", Sequence(<<defineV, Var("v")>>), EmptyEnv, FALSE, Returns(Num(43))),
       Program("lookup", Sequence(<<defineV, Var("v")>>), ("v" :> Num(1)), FALSE, Returns(Num(1))),
       Program("lookup", Sequence(<<defineV, Let(<< <<NameBinding("v"), Num(3)>> >>, Var("v"))>>),
               EmptyEnv, FALSE, Returns(Num(3))),
       Program("lookup", Sequence(<<Define("null", Num(43)), Var("null")>>), EmptyEnv, FALSE,
               Returns(NullBuiltin)),
       Program("lookup-global", Var("v"), EmptyEnv, FALSE, Nil) }

\* An outcome together with the expressions that must have been evaluated,
\* in order.
Traced(outcome, trace) == outcome @@ [trace |-> trace]

\* Calls whose called expression and arguments tell, by failing or by
\* their place in the trace, when they were evaluated.
CallOrderPrograms ==
  LET fn0 == Lambda(<<>>, Str("body"))
      fn2 == Lambda(<<"x", "y">>, Str("body"))
      nullCall == CallE(Var("null"), <<>>)
      ordered == CallE(fn2, <<Num(1), Num(2)>>)
      nested == CallE(fn2, <<nullCall, Num(2)>>)
      notCallable == CallE(Num(5), <<Define("q", Num(1)), HoleExpr>>)
      calledFails == CallE(Var("w"), <<Num(1)>>)
      firstArgFails == CallE(fn2, <<Var("w"), HoleExpr>>)
      secondArgFails == CallE(fn2, <<Num(1), HoleExpr>>)
      refused == CallE(fn0, <<Num(1), Num(1)>>)
  IN { Program("call-order", ordered, EmptyEnv, FALSE,
               Traced(Returns(Str("body")), <<ordered, fn2, Num(1), Num(2), Str("body")>>)),
       Program("call-order", nested, EmptyEnv, FALSE,
               Traced(Returns(Str("body")),
                      <<nested, fn2, nullCall, Var("null"), Num(2), Str("body")>>)),
       Program("call-order", notCallable, EmptyEnv, FALSE,
               Traced(Fails("NotCallable"), <<notCallable, Num(5)>>)),
       Program("call-order", calledFails, EmptyEnv, FALSE,
               Traced(Fails("UnboundVariable"), <<calledFails, Var("w")>>)),
       Program("call-order", firstArgFails, EmptyEnv, FALSE,
               Traced(Fails("UnboundVariable"), <<firstArgFails, fn2, Var("w")>>)),
       Program("call-order", secondArgFails, EmptyEnv, FALSE,
               Traced(Fails("HoleEvaluated"), <<secondArgFails, fn2, Num(1), HoleExpr>>)),
       Program("call-order", refused, EmptyEnv, FALSE,
               Traced(Fails("ArityMismatch"), <<refused, fn0, Num(1), Num(1)>>)) }

\* Defines of d, which only these programs define: with a value that
\* would fail if it were evaluated, with a left-hand side that is no
\* name-binding, and followed by two lookups.
DefinePrograms ==
  LET failing == Define("d", HoleExpr)
      unnamed == [kind |-> "define", name |-> HoleExpr, value |-> Num(1)]
      unnamedVar == [kind |-> "define", name |-> Var("d"), value |-> Num(1)]
      lazy == Define("d", Str("value"))
      twice == Sequence(<<lazy, Num(0), Var("d"), Var("d")>>)
      forced == Sequence(<<failing, Var("d")>>)
  IN { Program("define", failing, EmptyEnv, FALSE, Traced(Returns(EmptyList), <<failing>>)),
       Program("define", unnamed, EmptyEnv, FALSE,
               Traced(Fails("DefineNeedsName"), <<unnamed>>)),
       Program("define", unnamedVar, EmptyEnv, FALSE,
               Traced(Fails("DefineNeedsName"), <<unnamedVar>>)),
       Program("define", twice, EmptyEnv, FALSE,
               Traced(Returns(Str("value")),
                      <<twice, lazy, Num(0), Var("d"), Str("value"), Var("d")>>)),
       Program("define", forced, EmptyEnv, FALSE,
               Traced(Fails("HoleEvaluated"), <<forced, failing, Var("d"), HoleExpr>>)) }

\* Names defined first and looked up by a later evaluation of the same
\* Evaluator: t is defined as 5 and nothing else defines it.
ForwardPrograms ==
  { Program("forward", Define("t", Num(5)), EmptyEnv, FALSE, Returns(EmptyList)),
    Program("forward", Sequence(<<Define("t", Num(5)), Var("t")>>), EmptyEnv, FALSE,
            Returns(Num(5))),
    Program("forward-lookup", Var("t"), EmptyEnv, FALSE, Nil) }

\* Defines whose value looks up the name being defined: directly (s), past
\* another define (m and n), and from inside a let and a call argument (r).
SelfReferencePrograms ==
  LET direct == Define("s", Var("s"))
      viaN == Define("m", Var("n"))
      viaM == Define("n", Var("m"))
      nested == Define("r", Let(<< <<NameBinding("k"), Num(1)>> >>,
                                CallE(Lambda(<<"x">>, Var("x")), <<Var("r")>>)))
  IN { Program("self-reference", direct, EmptyEnv, FALSE, Returns(EmptyList)),
       Program("self-reference", Var("s"), EmptyEnv, FALSE, Fails("UnboundVariable")),
       Program("self-reference", Sequence(<<direct, Var("s")>>), EmptyEnv, FALSE,
               Fails("UnboundVariable")),
       Program("self-reference", Sequence(<<viaN, viaM, Var("m")>>), EmptyEnv, FALSE,
               Fails("UnboundVariable")),
       Program("self-reference", Sequence(<<nested, Var("r")>>), EmptyEnv, FALSE,
               Fails("UnboundVariable")) }

\* lets whose later value names an earlier binding of the same let, with
\* and without an outer binding of that name; a let that shadows an outer
\* name; and (let ((x 1) (y 2)) (let ((x y) (y x)) ..)), which swaps.
LetPrograms ==
  LET chained == Let(<< <<NameBinding("x"), Num(1)>>, <<NameBinding("y"), Var("x")>> >>, Var("y"))
      shadowing == Let(<< <<NameBinding("x"), Num(2)>> >>, Var("x"))
      swap(body) == Let(<< <<NameBinding("x"), Num(1)>>, <<NameBinding("y"), Num(2)>> >>,
                        Let(<< <<NameBinding("x"), Var("y")>>, <<NameBinding("y"), Var("x")>> >>,
                            body))
  IN { Program("let", chained, EmptyEnv, FALSE,
               Traced(Fails("UnboundVariable"), <<chained, Num(1), Var("x")>>)),
       Program("let", chained, ("x" :> Num(42)), FALSE,
               Traced(Returns(Num(42)), <<chained, Num(1), Var("x"), Var("y")>>)),
       Program("let", shadowing, ("x" :> Num(42)), FALSE,
               Traced(Returns(Num(2)), <<shadowing, Num(2), Var("x")>>)),
       Program("let", swap(Var("x")), EmptyEnv, FALSE,
               Traced(Returns(Num(2)),
                      <<swap(Var("x")), Num(1), Num(2), swap(Var("x")).body,
                        Var("y"), Var("x"), Var("x")>>)),
       Program("let", swap(Var("y")), EmptyEnv, FALSE,
               Traced(Returns(Num(1)),
                      <<swap(Var("y")), Num(1), Num(2), swap(Var("y")).body,
                        Var("y"), Var("x"), Var("y")>>)) }

\* c is defined as x inside a local scope binding x to 1 (a let body, a
\* closure body) and first looked up elsewhere: in the same scope, at top
\* level, or in another scope binding x to 2.  expect is the outcome when
\* the value expression sees the bindings of the define's scope.
DefineScopePrograms ==
  LET defineC == Define("c", Var("x"))
      scope(n, body) == Let(<< <<NameBinding("x"), Num(n)>> >>, body)
      inLet == scope(1, Sequence(<<defineC, Var("c")>>))
      afterLet == Sequence(<<scope(1, defineC), Var("c")>>)
      otherLet == Sequence(<<scope(1, defineC), scope(2, Var("c"))>>)
      afterCall == Sequence(<<CallE(Lambda(<<"x">>, defineC), <<Num(1)>>), Var("c")>>)
      otherCall == Sequence(<<CallE(Lambda(<<"x">>, defineC), <<Num(1)>>),
                              CallE(Lambda(<<"x">>, Var("c")), <<Num(2)>>)>>)
  IN { Program("define-scope", expr, EmptyEnv, FALSE, Returns(Num(1))) :
         expr \in {inLet, afterLet, otherLet, afterCall, otherCall} }

\* Sequences: empty, of one, of literals, nested, and one whose second
\* sub-expression fails.
SequencePrograms ==
  LET empty == Sequence(<<>>)
      one == Sequence(<<Num(7)>>)
      two == Sequence(<<Bool(FALSE), Str("result")>>)
      three == Sequence(<<Num(1), Num(2), Num(3)>>)
      nested == Sequence(<<Sequence(<<Num(1), Num(2)>>), empty>>)
      failing == Sequence(<<Num(1), HoleExpr, Num(3)>>)
  IN { Program("sequence-order", empty, EmptyEnv, FALSE, Traced(Returns(EmptyList), <<empty>>)),
       Program("sequence-order", one, EmptyEnv, FALSE, Traced(Returns(Num(7)), <<one, Num(7)>>)),
       Program("sequence-order", two, EmptyEnv, FALSE,
               Traced(Returns(Str("result")), <<two, Bool(FALSE), Str("result")>>)),
       Program("sequence-order", three, EmptyEnv, FALSE,
               Traced(Returns(Num(3)), <<three, Num(1), Num(2), Num(3)>>)),
       Program("sequence-order", nested, EmptyEnv, FALSE,
               Traced(Returns(EmptyList), <<nested, nested.exprs[1], Num(1), Num(2), empty>>)),
       Program("sequence-order", failing, EmptyEnv, FALSE,
               Traced(Fails("HoleEvaluated"), <<failing, Num(1), HoleExpr>>)) }

\* (letrec ((a b) (b 1)) a) and (letrec ((a a)) a): a's value expression
\* names, outside any lambda, a binding of the letrec that has no value yet;
\* alone, inside an environment that binds the name too, or after a define
\* of that name.
DirectLetrecPrograms ==
  LET later == Letrec(<< <<NameBinding("a"), Var("b")>>, <<NameBinding("b"), Num(1)>> >>,
                      Var("a"))
      self == Letrec(<< <<NameBinding("a"), Var("a")>> >>, Var("a"))
  IN { Program("letrec-direct", expr, env, FALSE, Nil) :
         expr \in {later, self}, env \in {EmptyEnv, ("a" :> Num(41)) @@ ("b" :> Num(42))} }
     \cup
     { Program("letrec-direct", Sequence(<<Define(name, Num(43)), expr>>), EmptyEnv, FALSE, Nil) :
         name \in {"a", "b"}, expr \in {later, self} }

Programs ==
  ClosureLetrecPrograms \cup CallingLetrecPrograms \cup UnitTestPrograms
  \cup DirectLetrecPrograms \cup LexicalScopePrograms \cup LambdaPrograms
  \cup ArityPrograms \cup VarPrograms \cup CallOrderPrograms \cup DefinePrograms
  \cup ForwardPrograms \cup SelfReferencePrograms \cup LetPrograms \cup DefineScopePrograms
  \cup SequencePrograms

\* ------------------------------------------------------------ editor trees
\* The root expressions the editor's trees hold when the evaluate action is
\* used: defines of t (as 5), of u (as t) and of s (as s itself),
\* references to them, and the data an evaluation gives back.  A tree's
\* root node is kept whole, as a node of kind "expr" whose val is the
\* expression's place in this list:
\* the evaluate action reads the trees and does not address inside them.
ExprTrees ==
  << Define("t", Num(5)), Var("t"), Num(5), Define("u", Var("t")), Var("u"), EmptyList,
     Define("s", Var("s")), Var("s") >>

\* Most trees the user creates before evaluating.
MaxExprTrees == 3

ExprNode(k) == [kind |-> "expr", kids |-> <<>>, val |-> k]

\* The node a Value becomes when it is handed to newTree as a Datum.
DatumNode(value) ==
  IF \E k \in 1 .. Len(ExprTrees) : ExprTrees[k] = value
  THEN ExprNode(CHOOSE k \in 1 .. Len(ExprTrees) : ExprTrees[k] = value)
  ELSE ExprNode(0)

\* tree.root of a tree of the forest.
RootExpr(W, tree) == ExprTrees[W.heap[tree.root].val]

\* The [name, producer] pairs of the define trees, in forest order.
RECURSIVE DefineProducers(_, _)
DefineProducers(W, trees) ==
  IF trees = <<>> THEN <<>>
  ELSE LET root == RootExpr(W, Head(trees))
       IN (IF root.kind = "define" /\ root.name.kind = "name-binding"
           THEN << <<root.name.id, TreeThunk(root)>> >>
           ELSE <<>>) \o DefineProducers(W, Tail(trees))

\* evaluateContextMenuSubject up to its result: a Defines table with a
\* producer for every define tree, an Evaluator constructed with that table
\* as its argument, and the subject evaluated by it.
EvaluateSubject(W, subject) ==
  LET defines == Defines_addAll(NoDefines, DefineProducers(W, W.trees))
      evaluator == Evaluator_constructor(defines)
  IN Evaluator_eval(evaluator, subject, EmptyEnv)

\* #eval_ returns a literal expression itself (`return expr`), so the Value
\* of a literal subject is the subject's own node; the other evaluations that
\* succeed here (a define) yield an object that is no node of the forest.
isLiteral(expr) == expr.kind \in {"number", "bool", "string", "symbol", "list"}

\* newTree(result, location): the new Tree's root is the result object.
newTreeOfResult(W, tree, subject, value) ==
  IF isLiteral(subject) THEN newTree(W, tree.root)
  ELSE newTree([W EXCEPT !.heap = Append(@, DatumNode(value))], Len(W.heap) + 1)

\* ------------------------------------------------------------ evaluator state
\* Most evaluations made with one Evaluator.
MaxEvals == 2

\* run: the last evaluation - its program, the names Defines held before
\* it, its outcome and its trace.
NoRun == [program |-> Program("none", EmptyList, EmptyEnv, FALSE, EmptyList),
          defined |-> {}, ok |-> TRUE, value |-> Nil, error |-> "", trace |-> <<>>]

DefinedNames(D) == DOMAIN D.thunks \cup DOMAIN D.cells

EvalInit ==
  /\ ev = NewEvaluator
  /\ evals = 0
  /\ run = NoRun

\* The Environment a caller builds from values: one full cell per name.
RECURSIVE EnvOfValues(_, _, _)
EnvOfValues(E, values, names) ==
  IF names = {} THEN [E |-> E, env |-> EmptyEnv]
  ELSE LET name == CHOOSE n \in names : TRUE
           rest == EnvOfValues(E, values, names \ {name})
           cell == Len(rest.E.cells) + 1
       IN [E |-> [rest.E EXCEPT !.cells = Append(@, FullCell(values[name]))],
           env |-> (name :> [name |-> name, cell |-> cell]) @@ rest.env]

\* evaluator.eval(expr, env) on the current Evaluator (the unit tests'
\* harness: no editor forest).
Evaluate ==
  /\ evals < MaxEvals
  /\ trees_ = <<>>
  /\ \E program \in Programs :
       LET given == EnvOfValues(ev, program.env, DOMAIN program.env)
           result == Evaluator_eval(given.E, program.expr, given.env)
       IN /\ ev' = [result.E EXCEPT !.trace = <<>>]
          /\ run' = [program |-> program, defined |-> DefinedNames(ev.defines),
                     ok |-> result.ok, value |-> result.value,
                     error |-> result.error, trace |-> result.E.trace]
  /\ evals' = evals + 1
  /\ UNCHANGED <<forestVars, typeVars>>

\* The calls of builtins tried: < and > on up to three numbers, map and
\* for-each on a closure and up to two proper lists of up to two elements.
NumberLists ==
  UNION { [1 .. n -> {Num(1), Num(2), Num(3)}] : n \in 0 .. 2 }
    \cup { <<Num(1), Num(2), Num(3)>>, <<Num(3), Num(2), Num(1)>>,
           <<Num(1), Num(3), Num(2)>>, <<Num(2), Num(2), Num(1)>> }

ListValue(heads) == [kind |-> "list", heads |-> heads]

ProperLists == { ListValue(<<>>), ListValue(<<Num(1)>>), ListValue(<<Num(1), Num(2)>>) }

\* (lambda (x) x) and (lambda (x y) y), as closures over no environment.
ColumnFns ==
  << [kind |-> "fn", signature |-> <<[name |-> "x"]>>, body |-> Var("x")],
     [kind |-> "fn", signature |-> <<[name |-> "x"], [name |-> "y"]>>, body |-> Var("y")] >>

BuiltinCalls ==
  { <<fn, numbers>> : fn \in {LessBuiltin, GreaterBuiltin}, numbers \in NumberLists }
    \cup UNION { { <<fn, <<ColumnFns[n]>> \o lists>> :
                     fn \in {MapBuiltin, ForEachBuiltin}, lists \in [1 .. n -> ProperLists] } :
                   n \in 1 .. 2 }
    \cup { <<fn, <<ColumnFns[1]>> >> : fn \in {MapBuiltin, ForEachBuiltin} }

\* The calls tried: every function value of the unit test with every
\* argument list, and the calls of builtins.
Calls == (FnValues \X ArgLists) \cup BuiltinCalls

\* evaluator.call(fn, args) on the current Evaluator.
CallFn ==
  /\ evals < MaxEvals
  /\ trees_ = <<>>
  /\ \E call \in Calls :
       LET fn == call[1]
           args == call[2]
           result == Evaluator_call(ev, fn, args, MaxDepth)
       IN /\ ev' = [result.E EXCEPT !.trace = <<>>]
          /\ run' = [program |-> Program(IF call \in BuiltinCalls THEN "call-builtin"
                                         ELSE "call-fn",
                                         [kind |-> "apply", fn |-> fn, args |-> args],
                                         EmptyEnv, FALSE, Nil),
                     defined |-> DefinedNames(ev.defines),
                     ok |-> result.ok, value |-> result.value,
                     error |-> result.error, trace |-> result.E.trace]
  /\ evals' = evals + 1
  /\ UNCHANGED <<forestVars, typeVars>>

\* new Evaluator(): a fresh evaluator with an empty Defines table.
Construct ==
  /\ evals > 0
  /\ ev' = NewEvaluator
  /\ evals' = 0
  /\ run' = NoRun
  /\ UNCHANGED <<forestVars, typeVars>>

\* The user drops a new tree on the canvas: newTree(expr, location).
CreateExprTree ==
  /\ Len(trees_) < MaxExprTrees
  /\ evals = 0 /\ run = NoRun
  /\ \E k \in 1 .. Len(ExprTrees) :
       LET R == newTree([World EXCEPT !.heap = Append(@, ExprNode(k))], Len(heap) + 1)
       IN /\ trees_' = R.trees
          /\ nextID' = R.nextID
          /\ heap' = R.heap
          /\ issued' = issued \cup { R.trees[i].id : i \in 1 .. Len(R.trees) }
  /\ UNCHANGED <<last, ev, evals, run, typing>>

\* The context menu's Evaluate on a tree: the subject is evaluated and,
\* unless the evaluation threw, the result becomes a new tree and the
\* editor rerenders.
EvaluateContextMenuSubject ==
  /\ Len(trees_) <= MaxExprTrees
  /\ \E tree \in InForest :
       LET subject == RootExpr(World, tree)
           result == EvaluateSubject(World, subject)
           R == IF result.ok THEN newTreeOfResult(World, tree, subject, result.value)
                ELSE World
       IN /\ trees_' = R.trees
          /\ nextID' = R.nextID
          /\ heap' = R.heap
          /\ issued' = issued \cup { R.trees[i].id : i \in 1 .. Len(R.trees) }
          /\ run' = [program |-> Program("evaluate-action", subject, EmptyEnv, FALSE, Nil),
                     defined |-> { DefineProducers(World, trees_)[i][1] :
                                     i \in 1 .. Len(DefineProducers(World, trees_)) },
                     ok |-> result.ok, value |-> result.value,
                     error |-> result.error, trace |-> result.E.trace]
  /\ UNCHANGED <<last, ev, evals, typing>>

\* ============================================================ Part III
\* The typechecker's types (typechecker/type) and type substitution
\* (typechecker/type-substitution).  A Type is an object told apart by the
\* properties it has: a TypeVar has "var", a ForallType "forall", a
\* ConcreteType "tag", a TypeVarSlot "kind".

TypeVar(name) == [var |-> name]

ForallType(forall, body) == [forall |-> forall, body |-> body]

\* SimpleConcreteType: the parameter list "of" is optional.
SimpleConcreteType(tag) == [tag |-> tag]

ConcreteTypeOf(tag, of) == [tag |-> tag, of |-> of]

VariadicFunctionType(of, minArgCount, maxArgCount) ==
  [tag |-> "Function*", of |-> of, minArgCount |-> minArgCount, maxArgCount |-> maxArgCount]

TypeNameHole == [kind |-> "type-name-hole"]

TypeNameBinding(id) == [kind |-> "type-name-binding", id |-> id]

isConcreteType(type) == "tag" \in DOMAIN type

isTypeVar(type) == "var" \in DOMAIN type

isForallType(type) == "forall" \in DOMAIN type

isTypeNameHole(type) == "kind" \in DOMAIN type /\ type.kind = "type-name-hole"

isTypeNameBinding(type) == "kind" \in DOMAIN type /\ type.kind = "type-name-binding"

isTypeVarSlot(type) == isTypeNameHole(type) \/ isTypeNameBinding(type)

\* forallType.forall.some((slot) => isTypeVar(slot) && slot.var === typeVarName)
isTypeVarBoundBy(typeVarName, forallType) ==
  \E i \in 1 .. Len(forallType.forall) :
    isTypeVar(forallType.forall[i]) /\ forallType.forall[i].var = typeVarName

RECURSIVE typeParams(_)
typeParams(type) ==
  IF isTypeVar(type) \/ isTypeVarSlot(type) THEN <<>>
  ELSE IF isForallType(type) THEN typeParams(type.body)
  ELSE IF "of" \in DOMAIN type THEN type.of ELSE <<>>

\* A TypeSubstitution is a function from type variable names to Types.
RECURSIVE typeSubstitute(_, _)
typeSubstitute(type, sub) ==
  IF isTypeVarSlot(type) THEN type
  ELSE IF isTypeVar(type) THEN (IF type.var \in DOMAIN sub THEN sub[type.var] ELSE type)
  ELSE IF isForallType(type)
  THEN [forall |-> type.forall, body |-> typeSubstitute(type.body, sub)]
  ELSE LET tag == type.tag
           params == [i \in 1 .. Len(typeParams(type)) |->
                        typeSubstitute(typeParams(type)[i], sub)]
       IN IF Len(params) > 0 THEN [tag |-> tag, of |-> params] ELSE [tag |-> tag]

\* The outcome of a call that returns a boolean or throws.
Returned(value) == [threw |-> FALSE, value |-> value]

Thrown(error) == [threw |-> TRUE, error |-> error]

\* typeVarOccurs; someOccurs is Array.some over the type parameters: it
\* stops at the first child that yields true, and a throw from a child
\* ends the whole call.
RECURSIVE typeVarOccurs(_, _), someOccurs(_, _, _)
typeVarOccurs(typeVarName, type) ==
  IF isTypeVar(type) THEN Returned(type.var = typeVarName)
  ELSE IF isForallType(type)
  THEN IF isTypeVarBoundBy(typeVarName, type) THEN Returned(FALSE)
       ELSE typeVarOccurs(typeVarName, type.body)
  ELSE IF isConcreteType(type)
  THEN someOccurs(typeVarName, IF "of" \in DOMAIN type THEN type.of ELSE <<>>, 1)
  ELSE IF isTypeNameHole(type) THEN Returned(FALSE)
  ELSE Thrown("invalid type passed to typeVarOccurs")

someOccurs(typeVarName, children, i) ==
  IF i > Len(children) THEN Returned(FALSE)
  ELSE LET r == typeVarOccurs(typeVarName, children[i])
       IN IF r.threw \/ r.value THEN r ELSE someOccurs(typeVarName, children, i + 1)

\* ------------------------------------------------------------ the types tried
TypeVarNames == {"a", "b"}

NumberType == SimpleConcreteType("Number")

TypeVarSlots == {TypeNameHole} \cup { TypeNameBinding(id) : id \in TypeVarNames }

AtomicTypes == { TypeVar(name) : name \in TypeVarNames } \cup {NumberType} \cup TypeVarSlots

\* One more layer of structure over the types of S: lists, functions,
\* variadic functions with argument-count bounds and forall types.
TypesOver(S) ==
  S \cup { ConcreteTypeOf("List", <<t>>) : t \in S }
    \cup { ForallType(<<slot>>, t) : slot \in TypeVarSlots, t \in S }

FunctionTypes ==
  LET plain == { TypeVar(name) : name \in TypeVarNames } \cup {NumberType}
  IN { ConcreteTypeOf("Function", <<t, u>>) : t, u \in plain }
       \cup { VariadicFunctionType(<<t, NumberType>>, 1, 2) : t \in AtomicTypes }
       \cup { ForallType(<<TypeNameBinding("a"), TypeNameBinding("b")>>,
                         ConcreteTypeOf("Function", <<TypeVar("a"), TypeVar("b")>>)) }

Types == TypesOver(TypesOver(AtomicTypes) \cup FunctionTypes)

EmptySubstitution == [name \in {} |-> NumberType]

TypeSubstitutions ==
  { EmptySubstitution,
    "a" :> NumberType,
    "b" :> NumberType,
    "a" :> TypeVar("b"),
    ("a" :> NumberType) @@ ("b" :> ConcreteTypeOf("List", <<NumberType>>)) }

\* typing: the last typechecker call - its arguments and its result.
NoTyping == [op |-> "none"]

TypeInit == typing = NoTyping

\* typeSubstitute(type, sub)
Substitute ==
  /\ \E type \in Types, sub \in TypeSubstitutions :
       typing' = [op |-> "typeSubstitute", type |-> type, sub |-> sub,
                  result |-> typeSubstitute(type, sub)]
  /\ UNCHANGED <<forestVars, evalVars>>

\* typeVarOccurs(typeVarName, type)
Occurs ==
  /\ \E typeVarName \in TypeVarNames, type \in Types :
       typing' = [op |-> "typeVarOccurs", typeVarName |-> typeVarName, type |-> type,
                  result |-> typeVarOccurs(typeVarName, type)]
  /\ UNCHANGED <<forestVars, evalVars>>

\* ------------------------------------------------------------ specifications
Init == ForestInit /\ EvalInit /\ TypeInit

Next == Create \/ Remove \/ Move \/ Copy \/ Orphan \/ Rerender

Spec == Init /\ [][Next]_vars

NextEval ==
  Evaluate \/ CallFn \/ Construct \/ CreateExprTree \/ EvaluateContextMenuSubject

SpecEval == Init /\ [][NextEval]_vars

NextTypes == Substitute \/ Occurs

SpecTypes == Init /\ [][NextTypes]_vars

\* The non-hole nodes reachable from some Tree of a forest.
Reachable(h, ts) == UNION { NodesOf(h, ts[i].root) : i \in 1 .. Len(ts) }

\* A node that is reachable from one of its own children.
OnCycle(h, n) ==
  LET below == Range(h[n].kids) \ {hole}
  IN n \in ReachSet(h, below, below)

\* C26: no move loses content: after a move whose destination slot lies
\* inside the subtree being moved (the moved node is the slot's parent or an
\* ancestor of it, a tree's root included), every non-hole node that was
\* reachable from some Tree before is still reachable from some Tree, and no
\* node lies on a cycle.
C26_MoveIntoOwnSubtreeKeepsContent ==
  (/\ last.op = "move"
   /\ last.dp # <<>>
   /\ PreSource \notin {Invalid, hole}
   /\ PreDestination # Invalid
   /\ exprForIndexPathInTree(last.pre.heap, last.dt, Front(last.dp))
        \in NodesOf(last.pre.heap, PreSource))
  =>
  (/\ Reachable(last.pre.heap, last.pre.trees) \subseteq Reachable(heap, trees_)
   /\ \A n \in 1 .. Len(heap) : ~OnCycle(heap, n))

\* ------------------------------------------------------------ evaluator claims
\* C10: letrec bindings whose values are lambdas that name their siblings
\* only inside their bodies evaluate successfully, and a call of such a
\* closure from the letrec body resolves the sibling name to the sibling's
\* closure.
C10_LetrecMutualRecursion ==
  run.program.family \in {"letrec-closure", "letrec-call"} =>
    /\ run.ok
    /\ IF run.program.closure
       THEN run.value.kind = "fn" /\ run.value.body = run.program.expect
       ELSE run.value = run.program.expect

\* C11: a letrec value expression that names, outside any lambda body, a
\* sibling binding (or its own) that has no value yet fails with
\* UnboundVariable, whether or not an enclosing environment or Defines
\* binds that name as well.
C11_LetrecEarlyReferenceFails ==
  run.program.family = "letrec-direct" => ~run.ok /\ run.error = "UnboundVariable"

\* The last evaluation did what its program must do.
RunMatches ==
  IF run.program.expect.ok
  THEN run.ok /\ run.value = run.program.expect.value
  ELSE ~run.ok /\ run.error = run.program.expect.error

\* C12: a closure's body is evaluated in the environment captured when the
\* lambda was evaluated, extended with the parameters bound positionally to
\* the arguments; bindings that only the call site has are not visible.
C12_ClosuresAreLexicallyScoped ==
  run.program.family = "lexical" => RunMatches

\* A closure that captured x = 1 was called where x = 2 and returned 1.
C12_Witness ==
  /\ run.program.family = "lexical"
  /\ run.program.expect = Returns(Num(1))
  /\ run.ok /\ run.value = Num(1)

\* C13: evaluating a lambda yields a closure whose signature lists, in
\* parameter order, each parameter's name with its declared type and
\* variadic flag when it has them, and whose environment is the environment
\* current at the lambda (the base environment merged with the one given to
\* eval); the body is not evaluated.
C13_LambdaBuildsClosure ==
  run.program.family = "lambda" =>
    /\ run.ok /\ run.value.kind = "fn"
    /\ run.value.signature = run.program.expect
    /\ run.value.body = run.program.expr.body
    /\ DOMAIN run.value.env = DOMAIN ev.baseEnv \cup DOMAIN run.program.env
    /\ \A name \in DOMAIN run.program.env :
         ev.cells[run.value.env[name].cell] = FullCell(run.program.env[name])
    /\ run.trace = <<run.program.expr>>

\* C14: call(fn, args) fails when the number of arguments differs from the
\* number of parameters of a signature that is not variadic; with a
\* signature whose last parameter is variadic it passes the arity check
\* whenever there are at least as many arguments as fixed parameters, zero
\* arguments for a sole variadic parameter included.
C14_CallChecksArity ==
  /\ run.program.family = "arity" => RunMatches
  /\ run.program.family = "call-fn" =>
       LET signature == run.program.expr.fn.signature
           args == run.program.expr.args
           variadic == signature # <<>> /\ "variadic" \in DOMAIN signature[Len(signature)]
           fixed == IF variadic THEN Len(signature) - 1 ELSE Len(signature)
           typed == \E i \in 1 .. Len(signature) : "type" \in DOMAIN signature[i]
       IN /\ (~variadic /\ Len(args) # fixed) => ~run.ok
          /\ (variadic /\ Len(args) >= fixed) =>
               /\ run.error # "ArityMismatch"
               /\ ~typed => run.ok
          /\ (variadic /\ Len(args) < fixed) => ~run.ok

\* A function whose only parameter is variadic was called with no argument
\* and returned.
C14_Witness ==
  /\ run.program.family = "call-fn"
  /\ run.program.expr.fn.signature = <<[name |-> "x", variadic |-> TRUE]>>
  /\ run.program.expr.args = <<>>
  /\ run.ok

\* C15: a var is looked up in the lexical environment first and only then
\* in Defines: a lexical binding shadows a Defines entry of the same name, a
\* name found only in Defines yields the defined value, and a name absent
\* from both fails with UnboundVariable.
C15_VarLooksUpEnvThenDefines ==
  /\ run.program.family = "lookup" => RunMatches
  /\ run.program.family = "lookup-global" =>
       IF run.program.expr.id \in run.defined
       THEN run.ok /\ run.value = Num(43)
       ELSE ~run.ok /\ run.error = "UnboundVariable"

\* v was defined as 43 and bound lexically to 1, and its lookup gave 1.
C15_Witness ==
  /\ run.program.family = "lookup"
  /\ run.program.expr = Sequence(<<Define("v", Num(43)), Var("v")>>)
  /\ run.program.env = ("v" :> Num(1))
  /\ run.ok /\ run.value = Num(1)

\* C16: in a call the called expression is evaluated first; when it does
\* not yield a function the call fails with NotCallable and no argument is
\* evaluated; otherwise every argument is evaluated exactly once, left to
\* right, and all of them before the function is invoked.
C16_CallEvaluationOrder ==
  run.program.family = "call-order" =>
    /\ RunMatches
    /\ run.trace = run.program.expect.trace
    /\ run.error = "NotCallable" => "q" \notin DefinedNames(ev.defines)

\* Both arguments were evaluated, in order, and then the body.
C16_Witness ==
  /\ run.program.family = "call-order"
  /\ run.ok
  /\ run.trace = <<run.program.expr, run.program.expr.called, Num(1), Num(2), Str("body")>>

\* C17: evaluating a define does not evaluate its value expression then
\* (the value expression runs only when the defined name is first looked
\* up), returns the empty list, and fails when the left-hand side is not a
\* plain name-binding.  Stated for a name Defines did not hold before.
C17_DefineIsLazy ==
  (run.program.family = "define" /\ "d" \notin run.defined) =>
    /\ RunMatches
    /\ run.trace = run.program.expect.trace

\* d was defined and looked up twice: its value expression ran at the first
\* lookup only.
C17_Witness ==
  /\ run.program.family = "define"
  /\ "d" \notin run.defined
  /\ run.ok /\ run.value = Str("value")
  /\ Len(run.trace) = 6 /\ run.trace[5] = Str("value")

\* C18: a name registered by define is visible to any expression evaluated
\* afterward against the same Defines table, whatever the order in which
\* the defining tree and the referencing tree were created; in particular
\* the editor's evaluate action, which registers every top-level define
\* tree and then evaluates the selected subtree, resolves references to
\* those defines.
C18_DefinesVisibleAfterward ==
  /\ run.program.family = "forward" => RunMatches
  /\ (run.program.family = "forward-lookup" /\ "t" \in run.defined) =>
       run.ok /\ run.value = Num(5)
  /\ ( /\ run.program.family = "evaluate-action"
       /\ run.program.expr.kind = "var"
       /\ run.program.expr.id \in run.defined
       /\ "t" \in run.defined ) =>
       run.ok /\ run.value = Num(5)

\* C19: forcing a Defines producer that directly or transitively looks up
\* its own name, not yet populated, ends with UnboundVariable and not in an
\* endless recursion.
C19_SelfReferenceTerminates ==
  /\ run.program.family = "self-reference" => RunMatches
  /\ (run.program.family = "evaluate-action" /\ run.program.expr = Var("s")) =>
       ~run.ok /\ run.error = "UnboundVariable"

\* x was defined as x, looked up, and the lookup failed with
\* UnboundVariable after the producer had been entered.
C19_Witness ==
  /\ run.program.family = "self-reference"
  /\ run.program.expr = Sequence(<<Define("s", Var("s")), Var("s")>>)
  /\ ~run.ok /\ run.error = "UnboundVariable"
  /\ Len(run.trace) = 4

\* C20: let evaluates every binding's value expression in the environment
\* outside the let, so that a value expression never sees an earlier
\* binding of the same let; the body is then evaluated with all the
\* bindings added at once, the let's bindings shadowing outer names.
C20_LetBindsInOuterEnvironment ==
  run.program.family = "let" =>
    /\ RunMatches
    /\ run.trace = run.program.expect.trace

\* (let ((x 1) (y x)) y) inside an environment where x is 42 gave 42.
C20_Witness ==
  /\ run.program.family = "let"
  /\ run.program.env = ("x" :> Num(42))
  /\ Len(run.program.expr.bindings) = 2
  /\ run.ok /\ run.value = Num(42)

\* C21: a sequence evaluates every sub-expression in order and returns the
\* value of the last one; an empty sequence returns the empty list.
C21_SequenceReturnsLast ==
  run.program.family = "sequence-order" =>
    /\ RunMatches
    /\ run.trace = run.program.expect.trace

\* A sequence of three literals was evaluated in order and gave the third.
C21_Witness ==
  /\ run.program.family = "sequence-order"
  /\ Len(run.program.expr.exprs) = 3
  /\ run.ok /\ run.value = Num(3)
  /\ run.trace = <<run.program.expr, Num(1), Num(2), Num(3)>>

\* C25: the value expression of a define is evaluated in the environment
\* that was current when the define itself was evaluated (the let body or
\* closure body around it), not in the environment active where the name is
\* first looked up.  Stated for a name Defines did not hold before.
C25_DefineValueSeesDefiningScope ==
  (run.program.family = "define-scope" /\ "c" \notin run.defined) => RunMatches

\* C27: evaluating a node that lives in a Tree and creating a new Tree from
\* the resulting Value keeps single ownership: the new Tree's root is not a
\* node of any Tree that existed before, for every kind of evaluated
\* expression, literals included.
C27_EvaluatedResultIsNewNode ==
  (run.program.family = "evaluate-action" /\ run.ok) =>
    \A i \in 1 .. Len(trees_) - 1 :
      Last(trees_).root \notin NodesOf(heap, trees_[i].root)

\* The numbers (as values) are in strictly decreasing / increasing order.
StrictlyDecreasing(numbers) ==
  \A i \in 1 .. Len(numbers) - 1 : numbers[i].value > numbers[i + 1].value

StrictlyIncreasing(numbers) ==
  \A i \in 1 .. Len(numbers) - 1 : numbers[i].value < numbers[i + 1].value

CalledBuiltin(fns) == run.program.family = "call-builtin" /\ run.program.expr.fn \in fns

\* C24: the builtin < returns whether its number arguments are in strictly
\* decreasing order and the builtin > whether they are in strictly
\* increasing order, as their documentation strings state.
C24_ComparisonsAsDocumented ==
  /\ CalledBuiltin({LessBuiltin}) =>
       run.ok /\ run.value = Bool(StrictlyDecreasing(run.program.expr.args))
  /\ CalledBuiltin({GreaterBuiltin}) =>
       run.ok /\ run.value = Bool(StrictlyIncreasing(run.program.expr.args))

\* The lists handed to map / for-each: the arguments after the function.
ListsGiven == getVariadic(1, run.program.expr.args)

\* C30: map and for-each fail with a different-length error whenever the
\* proper lists they are given do not all have the same length, whichever
\* list is the shorter one (also when the first one is the shortest).
C30_DifferentLengthsFail ==
  (/\ CalledBuiltin({MapBuiltin, ForEachBuiltin})
   /\ \E i, j \in 1 .. Len(ListsGiven) : Len(ListsGiven[i].heads) # Len(ListsGiven[j].heads)) =>
    ~run.ok /\ run.error = "DifferentLength"

\* ------------------------------------------------------------ typechecker claims
\* The names a ForallType binds: the ids of its type-name bindings.
BoundNames(forallType) ==
  { forallType.forall[i].id :
      i \in { j \in 1 .. Len(forallType.forall) : isTypeNameBinding(forallType.forall[j]) } }

\* Substitution that respects binders: under a ForallType the names it
\* binds are dropped from the mapping; everything else of the type is kept.
RECURSIVE FreeSubstitute(_, _)
FreeSubstitute(type, mapping) ==
  IF isTypeVarSlot(type) THEN type
  ELSE IF isTypeVar(type)
  THEN (IF type.var \in DOMAIN mapping THEN mapping[type.var] ELSE type)
  ELSE IF isForallType(type)
  THEN LET free == DOMAIN mapping \ BoundNames(type)
       IN [type EXCEPT !.body = FreeSubstitute(@, [name \in free |-> mapping[name]])]
  ELSE IF "of" \in DOMAIN type
  THEN [type EXCEPT !.of = [i \in 1 .. Len(type.of) |-> FreeSubstitute(type.of[i], mapping)]]
  ELSE type

\* Whether a variadic function type (with argument-count bounds) is part
\* of the type.
RECURSIVE HasArgCounts(_)
HasArgCounts(type) ==
  IF isForallType(type) THEN HasArgCounts(type.body)
  ELSE IF isConcreteType(type)
  THEN \/ "minArgCount" \in DOMAIN type
       \/ "maxArgCount" \in DOMAIN type
       \/ \E i \in 1 .. Len(typeParams(type)) : HasArgCounts(typeParams(type)[i])
  ELSE FALSE

\* C22: substitute replaces every free TypeVar whose name is a key of the
\* mapping and leaves untouched every TypeVar bound by an enclosing
\* ForallType of the same name: {a: Number} applied to Forall([a], a)
\* returns Forall([a], a).  (Types with argument-count bounds are C29's.)
C22_SubstituteLeavesBoundVars ==
  (typing.op = "typeSubstitute" /\ ~HasArgCounts(typing.type)) =>
    typing.result = FreeSubstitute(typing.type, typing.sub)

\* A free occurrence: a TypeVar of that name outside every ForallType that
\* binds the name.
RECURSIVE FreeOccurs(_, _)
FreeOccurs(name, type) ==
  IF isTypeVar(type) THEN type.var = name
  ELSE IF isForallType(type) THEN name \notin BoundNames(type) /\ FreeOccurs(name, type.body)
  ELSE IF isConcreteType(type)
  THEN \E i \in 1 .. Len(typeParams(type)) : FreeOccurs(name, typeParams(type)[i])
  ELSE FALSE

\* C23: occurs(name, type) is true exactly when the type holds a TypeVar of
\* that name outside every ForallType that binds the name (by a type-name
\* binding with that id): occurs(a, Forall([a], a)) is false.
C23_OccursMeansFreeOccurrence ==
  (typing.op = "typeVarOccurs" /\ ~typing.result.threw) =>
    typing.result.value = FreeOccurs(typing.typeVarName, typing.type)

\* C28: typeVarOccurs returns a boolean for every well-formed Type, also
\* when a TypeVarSlot (hole or binding) stands as a type parameter or as a
\* ForallType body: it never throws.
C28_OccursNeverThrows ==
  typing.op = "typeVarOccurs" => ~typing.result.threw

\* A TypeVar of that name anywhere in the type, bound or free.
RECURSIVE Mentions(_, _)
Mentions(name, type) ==
  IF isTypeVar(type) THEN type.var = name
  ELSE IF isForallType(type) THEN Mentions(name, type.body)
  ELSE IF isConcreteType(type)
  THEN \E i \in 1 .. Len(typeParams(type)) : Mentions(name, typeParams(type)[i])
  ELSE FALSE

\* C29: substitution with an empty mapping, or with a mapping none of whose
\* keys occurs in the type, returns a type equal to its input: tag,
\* parameter list and the minArgCount/maxArgCount of a variadic function.
C29_SubstituteIdentity ==
  (typing.op = "typeSubstitute" /\ \A key \in DOMAIN typing.sub : ~Mentions(key, typing.type)) =>
    typing.result = typing.type

=============================================================================
